---- MODULE Spec2Model ----
(***************************************************************************)
(* The ChatSession Durable Object of worker/src/ChatSession.ts: one        *)
(* session instance, the WebSocket connections it has accepted, and the    *)
(* processing unit (one run of the async 'message' listener) of every      *)
(* inbound message.  JavaScript values, the JSON codec and the three       *)
(* backend adapters are modelled by what the code does with them.          *)
(***************************************************************************)
EXTENDS Naturals, Integers, Sequences, FiniteSets, TLC

(* ---------------------------------------------------------------- bounds *)
\* Inbound messages delivered to the session over the whole run.
MaxReqs == 2
\* Upgrade requests the session receives (each makes a new WebSocketPair).
MaxConns == 2
\* Direct calls of generate made on one instance.
MaxCalls == 3

(* ------------------------------------------------------ JavaScript values *)
Undef == [type |-> "undefined", val |-> ""]
Null == [type |-> "null", val |-> ""]
Str(s) == [type |-> "string", val |-> s]

\* IsFalsy with the empty string taken for a value (a check against undefined
\* and null only).
IsNullish(v) == v.type \in {"undefined", "null"}

\* !v of the listener's validation: undefined, null and "" are falsy.
IsFalsy(v) == v.type \in {"undefined", "null"} \/ (v.type = "string" /\ v.val = "")

\* A completion of a call: a returned value or a thrown Error with its message.
Return(v) == [ok |-> TRUE, val |-> v, message |-> ""]
Throw(m) == [ok |-> FALSE, val |-> Undef, message |-> m]

(* ------------------------------------------------------- inbound messages *)
\* evt.data as the JSON text it is: not JSON at all, the literal null, or an
\* object with (or without) the members agent and prompt.
NotJSON == [kind |-> "invalid", agent |-> Undef, prompt |-> Undef]
JSONNull == [kind |-> "null", agent |-> Undef, prompt |-> Undef]
Obj(a, p) == [kind |-> "object", agent |-> a, prompt |-> p]

AgentValues ==
  {Undef, Str(""), Str("cloudflare"), Str("openai"), Str("gemini"), Str("bogus"), Str("OpenAI")}
PromptValues == {Undef, Str(""), Str("hi")}
RawMessages ==
  {NotJSON, JSONNull}
    \cup {Obj(a, Str("hi")) : a \in AgentValues}
    \cup {Obj(a, p) : a \in {Str("cloudflare"), Str("bogus")}, p \in PromptValues}

\* JSON.parse(evt.data) followed by the reads message.agent / message.prompt:
\* a SyntaxError for text that is not JSON, a TypeError for the literal null.
JSONparse(raw) ==
  CASE raw.kind = "invalid" -> Throw("Unexpected token in JSON")
    [] raw.kind = "null" -> Throw("Cannot read properties of null (reading 'agent')")
    [] OTHER -> Return(Undef)

\* InvalidFormat looking at the agent only, the prompt being checked after
\* the routing.
InvalidFormatAgentOnly(raw) == IsFalsy(raw.agent)

\* if (!message.agent || !message.prompt)
InvalidFormat(raw) == IsFalsy(raw.agent) \/ IsFalsy(raw.prompt)

InvalidFormatText == "Invalid message format. Please provide both \"agent\" and \"prompt\"."

(* ------------------------------------------------------------ the router *)
SupportedAgents == {"cloudflare", "openai", "gemini"}

\* The switch of generate: strict equality with the three case labels.
Route(agent) ==
  IF agent.type = "string" /\ agent.val \in SupportedAgents THEN agent.val ELSE "default"

\* UnsupportedText without the interpolated agent value.
UnsupportedTextNoValue(agent) ==
  "Unsupported agent type. Please use 'cloudflare', 'openai', or 'gemini'."

\* `${v}` of a template literal.
JSString(v) ==
  CASE v.type = "string" -> v.val
    [] v.type = "undefined" -> "undefined"
    [] v.type = "null" -> "null"

UnsupportedText(agent) ==
  "Unsupported agent type: " \o JSString(agent)
    \o ". Please use 'cloudflare', 'openai', or 'gemini'."

(* ------------------------------------------------------- backend replies *)
\* What a provider call settles with.  kind "reject": the awaited promise
\* (env.AI.run or fetch) rejects.  kind "value": it resolves; status and text
\* are the HTTP status and raw body (fetch only), json whether the body parses
\* as JSON, and depth/leaf describe the parsed value along the path the
\* adapter reads: the first depth keys of the path exist (depth -1: the value
\* itself is null) and leaf is what the last key holds when all of them exist.
\* read: whether the body can be read at all; when the body stream fails,
\* await response.text() / response.json() rejects.
NoReply ==
  [kind |-> "none", status |-> 0, text |-> "", read |-> TRUE, json |-> FALSE,
   depth |-> 0, leaf |-> Undef]
Reject ==
  [kind |-> "reject", status |-> 0, text |-> "", read |-> TRUE, json |-> FALSE,
   depth |-> 0, leaf |-> Undef]
Value(st, txt, js, d, lf) ==
  [kind |-> "value", status |-> st, text |-> txt, read |-> TRUE, json |-> js,
   depth |-> d, leaf |-> lf]
\* A Response with this status whose body stream fails while it is read (txt
\* is what the provider was sending).
Unreadable(st, txt) ==
  [kind |-> "value", status |-> st, text |-> txt, read |-> FALSE, json |-> FALSE,
   depth |-> 0, leaf |-> Undef]

\* Keys read by each adapter: response.response; result.choices[0].message.content;
\* result.candidates[0].content.parts[0].text.
PathLen(agent) ==
  CASE agent = "cloudflare" -> 1
    [] agent = "openai" -> 4
    [] agent = "gemini" -> 6

Leaves == {Str("hello"), Str("")}
\* The last key but one missing (the final read throws), or the last key alone.
Depths(agent) == {PathLen(agent) - 2, PathLen(agent) - 1}

Replies(agent) ==
  IF agent = "cloudflare"
  THEN {Reject}
         \cup {Value(0, "", TRUE, d, Undef) : d \in Depths(agent)}
         \cup {Value(0, "", TRUE, PathLen(agent), lf) : lf \in Leaves}
  ELSE {Reject, Value(500, "upstream exploded", FALSE, 0, Undef),
        Unreadable(500, "upstream exploded"),
        Value(200, "<html>", FALSE, 0, Undef)}
         \cup {Value(200, "{..}", TRUE, d, Undef) : d \in Depths(agent)}
         \cup {Value(200, "{..}", TRUE, PathLen(agent), lf) : lf \in Leaves}

\* response.ok
IsOk(reply) == reply.status >= 200 /\ reply.status <= 299

\* ReadPath reading a key the provider does not send (response.result for
\* response.response): always undefined, or a TypeError further up.
ReadPathWrongKey(agent, reply) ==
  IF reply.depth >= PathLen(agent) - 1 THEN Return(Undef)
  ELSE Throw("Cannot read properties of undefined")

\* The chained property read a.k1.k2...kn on the parsed value: the leaf when
\* every key exists, undefined when only the last is missing, a TypeError when
\* an earlier one is.
ReadPath(agent, reply) ==
  IF reply.depth = PathLen(agent) THEN Return(reply.leaf)
  ELSE IF reply.depth = PathLen(agent) - 1 THEN Return(Undef)
  ELSE Throw("Cannot read properties of undefined")

(* ----------------------------------------------------------- the adapters *)
ProviderName(agent) ==
  CASE agent = "cloudflare" -> "Cloudflare AI"
    [] agent = "openai" -> "OpenAI"
    [] agent = "gemini" -> "Gemini"

\* The message of the Error each adapter's catch block throws.
GenericText(agent) ==
  CASE agent = "cloudflare" -> "Failed to generate response with Cloudflare AI."
    [] agent = "openai" -> "Failed to generate response with OpenAI."
    [] agent = "gemini" -> "Failed to generate response with Gemini."

\* StatusText without the status and the body.
StatusTextBare(agent, reply) == ProviderName(agent) \o " API responded with an error"

\* throw new Error(`... API responded with status ${response.status}: ${await response.text()}`)
StatusText(agent, reply) ==
  ProviderName(agent) \o " API responded with status " \o ToString(reply.status)
    \o ": " \o reply.text

\* The try block of an adapter, given what the provider call settled with.
TryBlock(agent, reply) ==
  IF reply.kind = "reject" THEN Throw("provider call rejected")
  ELSE IF agent = "cloudflare" THEN ReadPath(agent, reply)
  ELSE IF ~IsOk(reply)
  THEN IF reply.read THEN Throw(StatusText(agent, reply)) ELSE Throw("terminated")
  ELSE IF ~reply.read THEN Throw("terminated")
  ELSE IF ~reply.json THEN Throw("Unexpected token in JSON")
  ELSE ReadPath(agent, reply)

\* CatchBlock rethrowing the Error it caught (throw err).
CatchBlockRethrow(agent, completion) == completion

\* The catch block of an adapter: whatever was thrown is logged and replaced
\* by the adapter's generic Error.
CatchBlock(agent, completion) ==
  IF completion.ok THEN completion ELSE Throw(GenericText(agent))

\* generateWithCloudflare / generateWithOpenAI / generateWithGemini.
Adapter(agent, reply) == CatchBlock(agent, TryBlock(agent, reply))

\* console.error('... call failed:', err) of the adapter's catch block: the
\* message of the Error its try block threw ("" when it threw nothing).
Logged(agent, reply) == TryBlock(agent, reply).message

(* ------------------------------------------------------ outbound messages *)
\* JSON.stringify of an object literal: one member per key, a key whose value
\* is undefined is left out.
JSONstringify(obj) ==
  {<<k, obj[k]>> : k \in {x \in DOMAIN obj : obj[x].type # "undefined"}}

\* The member k of a frame as it was written (undefined when the frame has
\* no such member): what the claims read of a frame.
Member(frame, k) ==
  IF \E m \in frame : m[1] = k THEN (CHOOSE m \in frame : m[1] = k)[2] ELSE Undef

AssistantFrame(id, response) ==
  JSONstringify([id |-> Str(id), role |-> Str("assistant"), content |-> response])

ErrorFrame(id, text) ==
  JSONstringify([id |-> Str(id), role |-> Str("error"), content |-> Str(text)])

FailedText(message) == "Failed to process your request: " \o message

\* The last statement of the listener once generate has settled: line 70 on a
\* returned value, the catch block (lines 71-78) on a thrown Error.
ResponseFrame(id, completion) ==
  IF completion.ok THEN AssistantFrame(id, completion.val)
  ELSE ErrorFrame(id, FailedText(completion.message))

(* ------------------------------------------------------------------ state *)
VARIABLES
  conn,   \* conn[c]: "absent" (no such WebSocketPair yet), "open", "closed", "errored"
  units,  \* one record per inbound message: its processing unit
  sent,   \* sent[c]: the frames written to connection c, in the order of the writes
  called  \* the direct calls of generate: the argument and what the call settled with

vars == <<conn, units, sent, called>>

Conns == 1..MaxConns

\* No completion yet (the messages of thrown Errors are never empty).
NoOutcome == [ok |-> FALSE, val |-> Undef, message |-> ""]

\* pc: "fetch" awaiting env.AI.run / fetch, "body" awaiting response.text() /
\* response.json(), "done" the listener has returned or thrown.
\* calls: provider calls issued for this message.  escaped: an exception left
\* the listener (its promise rejected).  outcome: what the statements before
\* the listener's last send ended with (JSON.parse throwing, generate
\* returning or throwing).  logged: the message of the Error the adapter's
\* catch block passed to console.error.
NewUnit(c, raw) ==
  [conn |-> c, raw |-> raw, pc |-> "done", calls |-> 0, reply |-> NoReply,
   escaped |-> FALSE, outcome |-> NoOutcome, logged |-> ""]

Init ==
  /\ conn = [c \in Conns |-> "absent"]
  /\ units = <<>>
  /\ sent = [c \in Conns |-> <<>>]
  /\ called = <<>>

Put(r, u) == IF r > Len(units) THEN Append(units, u) ELSE [units EXCEPT ![r] = u]

\* crypto.randomUUID(): a value no frame of another unit carries.
FreshId(r) == "uuid-" \o ToString(r)

\* server.send(frame) on the open socket c; req records the unit that wrote.
Write(c, r, frame) == [sent EXCEPT ![c] = Append(@, [req |-> r, frame |-> frame])]

\* Respond with a catch block that only logs: a thrown Error writes nothing.
RespondLogOnly(r, u, completion) ==
  /\ IF conn[u.conn] = "open" /\ completion.ok
     THEN sent' = Write(u.conn, r, ResponseFrame(FreshId(r), completion))
     ELSE sent' = sent
  /\ units' = Put(r, [u EXCEPT !.pc = "done", !.outcome = completion])
  /\ conn' = conn

\* Respond with a catch block that also calls server.close().
RespondCloseOnError(r, u, completion) ==
  /\ IF conn[u.conn] = "open"
     THEN /\ sent' = Write(u.conn, r, ResponseFrame(FreshId(r), completion))
          /\ units' = Put(r, [u EXCEPT !.pc = "done", !.outcome = completion])
     ELSE /\ sent' = sent
          /\ \E thrown \in BOOLEAN :
               units' = Put(r, [u EXCEPT !.pc = "done", !.outcome = completion,
                                         !.escaped = thrown])
  /\ conn' = IF completion.ok \/ conn[u.conn] # "open" THEN conn
             ELSE [conn EXCEPT ![u.conn] = "closed"]

\* Respond behind a failure flag kept on the instance: once a provider call of
\* some unit on the connection has failed, every later answer is an error.
RespondPoisoned(r, u, completion) ==
  LET poisoned == \E q \in 1..Len(units) :
                    q # r /\ units[q].conn = u.conn /\ units[q].pc = "done"
                      /\ units[q].calls >= 1 /\ ~units[q].outcome.ok
      answer == IF poisoned THEN Throw("Session failed") ELSE completion
  IN /\ IF conn[u.conn] = "open"
        THEN /\ sent' = Write(u.conn, r, ResponseFrame(FreshId(r), answer))
             /\ units' = Put(r, [u EXCEPT !.pc = "done", !.outcome = completion])
        ELSE /\ sent' = sent
             /\ \E thrown \in BOOLEAN :
                  units' = Put(r, [u EXCEPT !.pc = "done", !.outcome = completion,
                                            !.escaped = thrown])
     /\ conn' = conn

\* Respond with the server end kept in a field of the instance, which every
\* upgrade overwrites: the frame goes to the connection accepted last.
RespondLatest(r, u, completion) ==
  LET latest == CHOOSE c \in Conns :
                  conn[c] # "absent" /\ \A d \in Conns : conn[d] # "absent" => d <= c
  IN /\ IF conn[latest] = "open"
        THEN /\ sent' = Write(latest, r, ResponseFrame(FreshId(r), completion))
             /\ units' = Put(r, [u EXCEPT !.pc = "done", !.outcome = completion])
        ELSE /\ sent' = sent
             /\ \E thrown \in BOOLEAN :
                  units' = Put(r, [u EXCEPT !.pc = "done", !.outcome = completion,
                                            !.escaped = thrown])
     /\ conn' = conn

\* server.send(frame) as the unit's last statement.  On an open socket the
\* frame is written.  On a socket that is no longer open the runtime either
\* discards the frame or throws; a throw from the send on line 70 lands in
\* the catch block, whose own send is not guarded, so the exception can leave
\* the listener.  Nothing in the listener closes the socket.
Respond(r, u, completion) ==
  /\ IF conn[u.conn] = "open"
     THEN /\ sent' = Write(u.conn, r, ResponseFrame(FreshId(r), completion))
          /\ units' = Put(r, [u EXCEPT !.pc = "done", !.outcome = completion])
     ELSE /\ sent' = sent
          /\ \E thrown \in BOOLEAN :
               units' = Put(r, [u EXCEPT !.pc = "done", !.outcome = completion,
                                         !.escaped = thrown])
  /\ conn' = conn

(* ---------------------------------------------------------------- actions *)
\* Upgrade keeping one socket per instance and accepting it again once it is
\* no longer open.
UpgradeReuse(c) ==
  /\ conn[c] # "open"
  /\ \A d \in Conns : d < c => conn[d] # "absent"
  /\ conn' = [conn EXCEPT ![c] = "open"]
  /\ UNCHANGED <<units, sent, called>>

\* Upgrade refusing a second connection while one is open.
UpgradeSingle(c) ==
  /\ conn[c] = "absent"
  /\ \A d \in Conns : d < c => conn[d] # "absent"
  /\ \A d \in Conns : conn[d] # "open"
  /\ conn' = [conn EXCEPT ![c] = "open"]
  /\ UNCHANGED <<units, sent, called>>

\* fetch(request) with Upgrade: websocket: a new WebSocketPair is made, its
\* server end accepted and the three listeners attached.
Upgrade(c) ==
  /\ conn[c] = "absent"
  /\ \A d \in Conns : d < c => conn[d] # "absent"
  /\ conn' = [conn EXCEPT ![c] = "open"]
  /\ UNCHANGED <<units, sent, called>>

\* fetch(request) without the Upgrade header: 200 'Chat session active'.
PlainFetch == UNCHANGED vars

\* OnMessage behind a per-connection queue: a message is taken up only when
\* no earlier one on the connection is still being processed.
OnMessageSerial(c, raw) ==
  /\ conn[c] = "open"
  /\ Len(units) < MaxReqs
  /\ UNCHANGED called
  /\ \A q \in 1..Len(units) : units[q].conn = c => units[q].pc = "done"
  /\ LET r == Len(units) + 1
         u == NewUnit(c, raw)
         parsed == JSONparse(raw)
     IN IF ~parsed.ok THEN Respond(r, u, parsed)
        ELSE IF InvalidFormat(raw)
        THEN /\ sent' = Write(c, r, ErrorFrame(FreshId(r), InvalidFormatText))
             /\ units' = Put(r, u)
             /\ conn' = conn
        ELSE IF Route(raw.agent) = "default"
        THEN Respond(r, u, Throw(UnsupportedText(raw.agent)))
        ELSE /\ units' = Put(r, [u EXCEPT !.pc = "fetch", !.calls = 1])
             /\ UNCHANGED <<sent, conn>>

\* The synchronous part of the 'message' listener, up to its first await that
\* suspends: parse, validation, routing, and the provider call being issued.
\* An unsupported agent makes generate reject at once; the catch block then
\* runs in the same turn of the event loop.
OnMessage(c, raw) ==
  /\ conn[c] = "open"
  /\ Len(units) < MaxReqs
  /\ UNCHANGED called
  /\ LET r == Len(units) + 1
         u == NewUnit(c, raw)
         parsed == JSONparse(raw)
     IN IF ~parsed.ok THEN Respond(r, u, parsed)
        ELSE IF InvalidFormat(raw)
        THEN /\ sent' = Write(c, r, ErrorFrame(FreshId(r), InvalidFormatText))
             /\ units' = Put(r, u)
             /\ conn' = conn
        ELSE IF Route(raw.agent) = "default"
        THEN Respond(r, u, Throw(UnsupportedText(raw.agent)))
        ELSE /\ units' = Put(r, [u EXCEPT !.pc = "fetch", !.calls = 1])
             /\ UNCHANGED <<sent, conn>>

\* ProviderSettles with one retry: a rejected call is issued a second time.
ProviderSettlesRetry(r, reply) ==
  /\ r \in 1..Len(units)
  /\ units[r].pc = "fetch"
  /\ UNCHANGED called
  /\ reply \in Replies(Route(units[r].raw.agent))
  /\ LET u == [units[r] EXCEPT !.reply = reply]
         agent == Route(u.raw.agent)
     IN IF reply.kind = "reject" /\ u.calls < 2
        THEN /\ units' = Put(r, [u EXCEPT !.calls = @ + 1])
             /\ UNCHANGED <<sent, conn>>
        ELSE IF agent = "cloudflare" \/ reply.kind = "reject"
        THEN Respond(r, [u EXCEPT !.logged = Logged(agent, reply)], Adapter(agent, reply))
        ELSE /\ units' = Put(r, [u EXCEPT !.pc = "body"])
             /\ UNCHANGED <<sent, conn>>

\* env.AI.run(...) or fetch(url, ...) settles.  For the two remote adapters a
\* resolved fetch leads to a second await, on the body.
ProviderSettles(r, reply) ==
  /\ r \in 1..Len(units)
  /\ units[r].pc = "fetch"
  /\ UNCHANGED called
  /\ reply \in Replies(Route(units[r].raw.agent))
  /\ LET u == [units[r] EXCEPT !.reply = reply]
         agent == Route(u.raw.agent)
     IN IF agent = "cloudflare" \/ reply.kind = "reject"
        THEN Respond(r, [u EXCEPT !.logged = Logged(agent, reply)], Adapter(agent, reply))
        ELSE /\ units' = Put(r, [u EXCEPT !.pc = "body"])
             /\ UNCHANGED <<sent, conn>>

\* BodySettles whose listener, the body read, goes on to await an
\* acknowledgement that nothing ever delivers.
BodySettlesAwaitAck(r) ==
  /\ r \in 1..Len(units)
  /\ units[r].pc = "body"
  /\ units' = Put(r, [units[r] EXCEPT !.pc = "ack"])
  /\ UNCHANGED <<conn, sent, called>>

\* response.text() or response.json() settles and the adapter, then the
\* listener, run to their end.
BodySettles(r) ==
  /\ r \in 1..Len(units)
  /\ units[r].pc = "body"
  /\ UNCHANGED called
  /\ LET agent == Route(units[r].raw.agent)
         reply == units[r].reply
     IN Respond(r, [units[r] EXCEPT !.logged = Logged(agent, reply)], Adapter(agent, reply))

\* The client closes the connection: the 'close' listener only logs.
ClientClose(c) ==
  /\ conn[c] = "open"
  /\ conn' = [conn EXCEPT ![c] = "closed"]
  /\ UNCHANGED <<units, sent, called>>

\* The transport fails: the 'error' listener only logs; the socket is gone.
TransportError(c) ==
  /\ conn[c] = "open"
  /\ conn' = [conn EXCEPT ![c] = "errored"]
  /\ UNCHANGED <<units, sent, called>>

\* message.agent for the value handed to generate: an object has the member,
\* a string primitive has none.
AgentOf(message) == IF "kind" \in DOMAIN message THEN message.agent ELSE Undef

\* generate(message) up to its first await: the default branch throws, so the
\* promise is rejected at once; any other branch leaves the call pending.
Generate(message) ==
  IF Route(AgentOf(message)) = "default"
  THEN Throw(UnsupportedText(AgentOf(message)))
  ELSE NoOutcome

\* The generate of the echo session: return `You said: ${prompt}`.
EchoGenerate(prompt) == Return(Str("You said: " \o prompt))

\* Prompt strings handed to generate directly.
Prompts == {"hello", "", "hi", "openai", "You said: hello"}

\* await cs.generate(p) on a constructed instance, p a string.
DirectGenerate(p) ==
  /\ Len(called) < MaxCalls
  /\ called' = Append(called, [arg |-> p, result |-> Generate(Str(p))])
  /\ UNCHANGED <<conn, units, sent>>

AllReplies == UNION {Replies(a) : a \in SupportedAgents}

\* The messages and replies of the runs that explore several connections at
\* once, which are about the connection a unit writes to and the moment it
\* does: a message failing validation, one naming an unsupported agent and
\* one that calls a provider; a rejected call and a reply holding the text.
\* The other ways a message or a reply can be wrong (text that is not JSON,
\* a non-success status, a malformed body) are left to the one-connection
\* runs.
CoreMessages ==
  {Obj(Str("openai"), Undef), Obj(Str("bogus"), Str("hi")), Obj(Str("openai"), Str("hi"))}

CoreReplies == {Reject, Value(200, "{..}", TRUE, 4, Str("hello"))}

\* The session with every connection it accepts.
Next ==
  \/ \E c \in Conns : Upgrade(c)
  \/ PlainFetch
  \/ \E c \in Conns, raw \in CoreMessages : OnMessage(c, raw)
  \/ \E r \in 1..MaxReqs, reply \in CoreReplies : ProviderSettles(r, reply)
  \/ \E r \in 1..MaxReqs : BodySettles(r)
  \/ \E c \in Conns : ClientClose(c)
  \/ \E c \in Conns : TransportError(c)

Spec == Init /\ [][Next]_vars

\* The session with one connection, every inbound message and every reply.
NextIO ==
  \/ Upgrade(1)
  \/ PlainFetch
  \/ \E raw \in RawMessages : OnMessage(1, raw)
  \/ \E r \in 1..MaxReqs, reply \in AllReplies : ProviderSettles(r, reply)
  \/ \E r \in 1..MaxReqs : BodySettles(r)
  \/ ClientClose(1)
  \/ TransportError(1)

SpecIO == Init /\ [][NextIO]_vars

\* The messages and replies of the fair runs: a message that is answered at
\* once, one for the local provider and one for a remote one; a rejection, a
\* non-success status and a reply with the text for each.
LiveMessages ==
  {Obj(Str("bogus"), Str("hi")), Obj(Str("cloudflare"), Str("hi")), Obj(Str("openai"), Str("hi"))}

LiveReplies ==
  {Reject, Value(0, "", TRUE, 1, Str("hello")), Value(500, "upstream exploded", FALSE, 0, Undef),
   Value(200, "{..}", TRUE, 4, Str("hello"))}

\* The session with one connection under fair scheduling: a provider call
\* that is pending settles, with a value or a rejection, and a continuation
\* that is ready to run is run by the event loop.
NextLive ==
  \/ Upgrade(1)
  \/ PlainFetch
  \/ \E raw \in LiveMessages : OnMessage(1, raw)
  \/ \E r \in 1..MaxReqs, reply \in LiveReplies : ProviderSettles(r, reply)
  \/ \E r \in 1..MaxReqs : BodySettles(r)
  \/ ClientClose(1)
  \/ TransportError(1)

SpecLive ==
  /\ Init /\ [][NextLive]_vars
  /\ \A r \in 1..MaxReqs :
       /\ WF_vars(\E reply \in LiveReplies : ProviderSettles(r, reply))
       /\ WF_vars(BodySettles(r))

\* An instance whose generate is called directly, no connection accepted.
NextGenerate == \E p \in Prompts : DirectGenerate(p)

SpecGenerate == Init /\ [][NextGenerate]_vars

TypeOK ==
  /\ conn \in [Conns -> {"absent", "open", "closed", "errored"}]
  /\ DOMAIN sent = Conns
  /\ Len(units) <= MaxReqs
  /\ \A r \in 1..Len(units) : units[r].pc \in {"fetch", "body", "done"}

(* ------------------------------------------------------------ vocabulary *)
Units == 1..Len(units)

Closed(c) == conn[c] \in {"closed", "errored"}

\* The writes made for unit r: <<connection, position>> pairs.
AllWrites(r) ==
  UNION {{<<c, i>> : i \in {j \in 1..Len(sent[c]) : sent[c][j].req = r}} : c \in Conns}

FrameAt(w) == sent[w[1]][w[2]].frame

Role(frame) == Member(frame, "role")
Content(frame) == Member(frame, "content")

\* Unit r has written exactly one frame, on its own connection, with this role.
OneFrame(r, role) ==
  /\ Cardinality(AllWrites(r)) = 1
  /\ \A w \in AllWrites(r) : w[1] = units[r].conn /\ Role(FrameAt(w)) = Str(role)

\* t occurs in s.
Contains(s, t) ==
  \E i \in 1..(Len(s) + 1) :
    i + Len(t) - 1 <= Len(s) /\ SubSeq(s, i, i + Len(t) - 1) = t

\* An InboundRequest in the sense of the data model: an object whose agent and
\* prompt are both non-empty strings.
WellFormed(raw) ==
  /\ raw.kind = "object"
  /\ raw.agent.type = "string" /\ raw.agent.val # ""
  /\ raw.prompt.type = "string" /\ raw.prompt.val # ""

\* An object for which the guard of line 60 is true: agent or prompt is
\* absent, null or the empty string.
MissingField(raw) ==
  /\ raw.kind = "object"
  /\ \/ raw.agent.type \in {"undefined", "null"} \/ raw.agent = Str("")
     \/ raw.prompt.type \in {"undefined", "null"} \/ raw.prompt = Str("")

Supported(raw) == raw.agent.val \in {"cloudflare", "openai", "gemini"}

\* The provider answered with generated text: the call resolved, with a
\* success status and a JSON body for the remote ones, and the text is there.
BackendSucceeded(raw, reply) ==
  /\ reply.kind = "value"
  /\ raw.agent.val = "cloudflare" \/ (reply.status \in 200..299 /\ reply.json)
  /\ reply.depth = PathLen(raw.agent.val)
  /\ reply.leaf.type = "string"

Finished(r) == units[r].pc = "done"
Writable(r) == conn[units[r].conn] = "open"

(* ----------------------------------------------------------------- claims *)
\* C1: every inbound message delivered to an open connection whose processing
\* unit has finished while the connection is still writable has had exactly
\* one frame written for it, whatever became of the message: parse failure,
\* validation failure, unsupported agent, backend success or backend failure.
C1_ExactlyOneWrite ==
  \A r \in Units : Finished(r) /\ Writable(r) => Cardinality(AllWrites(r)) = 1

\* Two finished units on an open connection, one whose message did not parse
\* and one whose provider call rejected, each with its single frame.
C1_Witness ==
  \E r, q \in Units :
    /\ Finished(r) /\ Writable(r) /\ units[r].raw = NotJSON
    /\ Finished(q) /\ Writable(q) /\ units[q].reply.kind = "reject"
    /\ Cardinality(AllWrites(r)) = 1 /\ Cardinality(AllWrites(q)) = 1

\* C2: a well-formed request for a supported agent whose backend succeeds gets
\* exactly one frame, of role assistant, whose content is the generated text.
C2_AssistantCarriesBackendText ==
  \A r \in Units :
    (/\ Finished(r) /\ Writable(r)
     /\ WellFormed(units[r].raw) /\ Supported(units[r].raw)
     /\ BackendSucceeded(units[r].raw, units[r].reply))
    => /\ OneFrame(r, "assistant")
       /\ \A w \in AllWrites(r) : Content(FrameAt(w)) = units[r].reply.leaf

\* A cloudflare and a gemini request, both answered with the provider's text.
C2_Witness ==
  \E r, q \in Units :
    /\ units[r].raw.agent = Str("cloudflare") /\ units[q].raw.agent = Str("gemini")
    /\ \A x \in {r, q} :
         /\ Finished(x) /\ Writable(x)
         /\ BackendSucceeded(units[x].raw, units[x].reply)
         /\ \E w \in AllWrites(x) : Content(FrameAt(w)) = Str("hello")

\* C3 (state part): a message lacking agent or prompt, or with an empty
\* prompt, is answered at once with exactly one frame of role error, and no
\* provider is called for it.
C3_OneErrorFrame ==
  \A r \in Units :
    MissingField(units[r].raw) =>
      Finished(r) /\ units[r].calls = 0 /\ OneFrame(r, "error")

\* C3 (step part): the step that handles such a message leaves every
\* connection as it was, so the one it arrived on is still open.
C3_StaysOpen ==
  (Len(units') > Len(units) /\ MissingField(units'[Len(units')].raw))
    => conn' = conn /\ conn'[units'[Len(units')].conn] = "open"

\* C3: for all inbound messages missing agent or prompt, or with an empty
\* prompt, the Session produces exactly one response with role error and the
\* connection remains open afterwards.
C3_InvalidMessageOneError == [](C3_OneErrorFrame) /\ [][C3_StaysOpen]_vars

\* An empty prompt and a missing agent, each answered with its error frame
\* on a connection that is still open.
C3_Witness ==
  \E r, q \in Units :
    /\ units[r].raw = Obj(Str("cloudflare"), Str(""))
    /\ units[q].raw = Obj(Undef, Str("hi"))
    /\ OneFrame(r, "error") /\ OneFrame(q, "error")
    /\ Writable(r) /\ Writable(q)

\* C4: a request whose agent is none of cloudflare, openai, gemini is answered
\* with a frame of role error whose content contains the agent value.
C4_UnsupportedAgentNamed ==
  \A r \in Units :
    (WellFormed(units[r].raw) /\ ~Supported(units[r].raw))
    => /\ OneFrame(r, "error")
       /\ \A w \in AllWrites(r) :
            Contains(Content(FrameAt(w)).val, units[r].raw.agent.val)

\* The agents "bogus" and "OpenAI" (wrong case), each named in its error frame.
C4_Witness ==
  \E r, q \in Units :
    /\ units[r].raw.agent = Str("bogus") /\ units[q].raw.agent = Str("OpenAI")
    /\ \A x \in {r, q} :
         /\ WellFormed(units[x].raw)
         /\ \E w \in AllWrites(x) :
              /\ Role(FrameAt(w)) = Str("error")
              /\ Contains(Content(FrameAt(w)).val, units[x].raw.agent.val)

\* The provider call failed in one of the three ways the design names:
\* NetworkFailure (the call rejects), NonSuccessStatus (a remote provider
\* answers outside 200..299), MalformedResponseBody (the body is not JSON, or
\* lacks the field the text is read from).
NetworkFailure(reply) == reply.kind = "reject"
NonSuccessStatus(raw, reply) ==
  reply.kind = "value" /\ raw.agent.val # "cloudflare" /\ ~(reply.status \in 200..299)
MalformedResponseBody(raw, reply) ==
  /\ reply.kind = "value"
  /\ raw.agent.val = "cloudflare" \/ reply.status \in 200..299
  /\ ~reply.json \/ reply.depth < PathLen(raw.agent.val)
BackendFailed(raw, reply) ==
  NetworkFailure(reply) \/ NonSuccessStatus(raw, reply) \/ MalformedResponseBody(raw, reply)

\* C5: for every backend and every failure kind (NetworkFailure,
\* NonSuccessStatus, MalformedResponseBody) the request is answered with a
\* frame of role error.  (That no such failure closes the connection is part
\* of C8.)  The code breaks this for a body that lacks only the last field.
C5_BackendFailureAnsweredWithError ==
  \A r \in Units :
    (/\ Finished(r) /\ Writable(r) /\ units[r].calls >= 1
     /\ BackendFailed(units[r].raw, units[r].reply))
    => OneFrame(r, "error")

\* C6 (state part): no exception has left the listener of any unit.
C6_NoEscape == \A r \in Units : ~units[r].escaped

\* C6 (step part): nothing is written to a connection that is closed.
C6_NoWriteAfterClose == \A c \in Conns : Closed(c) => sent'[c] = sent[c]

\* C6: when the connection closes while a provider call is in flight, the
\* call is not cancelled, and the write attempted when it completes is dropped
\* silently: no exception leaves the processing unit and nothing is written
\* to the closed connection.  The send is not guarded, so where the runtime
\* throws on a socket that is gone the exception leaves the listener.
C6_DroppedSilently == [](C6_NoEscape) /\ [][C6_NoWriteAfterClose]_vars

\* C7 (step): a connection that is closed stays closed, no unit is started on
\* it and no provider call is issued for it.
C7_Step ==
  \A c \in Conns :
    Closed(c) =>
      /\ conn'[c] \in {"closed", "errored"}
      /\ Len(units') > Len(units) => units'[Len(units')].conn # c
      /\ \A r \in Units : units[r].conn = c => units'[r].calls = units[r].calls

\* C7: Closed is terminal: once entered, by a client close or a transport
\* error, the connection never is Upgrading or Open again, and no message
\* delivered afterwards starts a processing unit or a backend call.
C7_ClosedIsTerminal == [][C7_Step]_vars

\* A closed connection with a unit that was in flight when it closed, and a
\* connection accepted after that, open and serving a message.
C7_Witness ==
  \E c, d \in Conns :
    /\ Closed(c) /\ conn[d] = "open"
    /\ \E r, q \in Units :
         /\ r < q /\ units[r].conn = c /\ units[q].conn = d
         /\ Finished(r) /\ units[r].calls = 1 /\ AllWrites(r) = {}

\* Unit r ended in this step: the listener ran to its end for a message that
\* has just arrived or for one whose provider has just settled.
EndsNow(r) ==
  /\ r \in 1..Len(units') /\ units'[r].pc = "done"
  /\ r > Len(units) \/ units[r].pc # "done"

\* C8 (step): whatever a processing unit ends with (a parse or validation
\* error, an unsupported agent, a rejected call, a non-success status, a
\* malformed body, or a success) the state of the connection is as before;
\* a connection leaves Open only in a step in which no unit acts; and a
\* connection lost to a transport failure stays lost: the error listener only
\* logs, nothing in the session accepts or re-opens the socket again.
C8_Step ==
  /\ \A r \in 1..MaxReqs : EndsNow(r) => conn' = conn
  /\ (units' # units \/ sent' # sent) => conn' = conn
  /\ \A c \in Conns : conn[c] = "errored" => conn'[c] = "errored"

\* C8: a transport-level failure moves the Session from Open to Closed, and
\* it is the only error kind that does: no validation error, unsupported
\* agent or backend failure takes the connection out of Open.
C8_OnlyTransportErrorCloses == [][C8_Step]_vars

\* A message failing validation and a request answered with a non-success
\* status were each answered with an error frame on the connection, which
\* stayed open through both and was then lost to a transport error.
C8_Witness ==
  /\ conn[1] = "errored"
  /\ \E r, q \in Units :
       /\ MissingField(units[r].raw) /\ OneFrame(r, "error")
       /\ NonSuccessStatus(units[q].raw, units[q].reply) /\ OneFrame(q, "error")
       /\ \E w \in AllWrites(r), v \in AllWrites(q) : w[2] < v[2]

InFlight(r) == units[r].pc \in {"fetch", "body"}

\* C9: inbound messages are not serialized.  While a unit is in flight on an
\* open connection the next message can still be taken up, and of two units
\* in flight the later can settle, and so write its frame, first.
C9_NotSerialized ==
  /\ \A c \in Conns :
       (conn[c] = "open" /\ Len(units) < MaxReqs
          /\ \E r \in Units : units[r].conn = c /\ InFlight(r))
       => ENABLED OnMessage(c, Obj(Str("openai"), Str("hi")))
  /\ \A r, q \in Units :
       (r < q /\ units[r].conn = units[q].conn /\ InFlight(r) /\ units[q].pc = "fetch")
       => ENABLED ProviderSettles(q, Reject)

\* Two requests on one connection that were in flight together, the frame of
\* the later one written before the frame of the earlier one.
C9_Witness ==
  \E r, q \in Units :
    /\ r < q /\ units[r].conn = units[q].conn
    /\ units[r].calls = 1 /\ units[q].calls = 1
    /\ \E w \in AllWrites(r), v \in AllWrites(q) : v[2] < w[2]

\* C10: no retries: a request causes at most one provider call, and a failed
\* call ends the request.
C10_NoRetry ==
  \A r \in Units :
    /\ units[r].calls <= 1
    /\ units[r].reply.kind = "reject" => Finished(r) /\ units[r].calls = 1

\* A request whose single provider call was rejected, answered with an error.
C10_Witness ==
  \E r \in Units :
    /\ units[r].reply.kind = "reject" /\ units[r].calls = 1
    /\ Finished(r) /\ OneFrame(r, "error")

\* Unit r's frame was written before unit q's, on the same connection.
WroteBefore(r, q) ==
  \E w \in AllWrites(r), v \in AllWrites(q) : w[1] = v[1] /\ w[2] < v[2]

\* C11: a failed backend call fails only the request that triggered it.  Of
\* two requests on one connection, whichever way their steps interleave, the
\* one whose own provider call succeeds is answered with an assistant frame
\* carrying its own provider's text, also when the other one's call failed.
C11_FailureStaysWithItsRequest ==
  \A r, q \in Units :
    (/\ r # q /\ units[r].conn = units[q].conn
     /\ units[q].calls = 1 /\ BackendFailed(units[q].raw, units[q].reply)
     /\ Finished(r) /\ Writable(r)
     /\ WellFormed(units[r].raw) /\ Supported(units[r].raw)
     /\ BackendSucceeded(units[r].raw, units[r].reply))
    => /\ OneFrame(r, "assistant")
       /\ \A w \in AllWrites(r) : Content(FrameAt(w)) = units[r].reply.leaf
       /\ units[r].outcome = Return(units[r].reply.leaf)

\* Two requests in flight together on one connection: the later one's call is
\* rejected and answered with an error first, then the earlier one's call
\* succeeds and is answered with its text.
C11_Witness ==
  \E r, q \in Units :
    /\ r < q /\ units[r].conn = units[q].conn
    /\ units[r].calls = 1 /\ units[q].calls = 1
    /\ units[q].reply.kind = "reject" /\ OneFrame(q, "error")
    /\ BackendSucceeded(units[r].raw, units[r].reply) /\ OneFrame(r, "assistant")
    /\ \A w \in AllWrites(r) : Content(FrameAt(w)) = Str("hello")
    /\ WroteBefore(q, r)

\* The connections the instance holds: accepted and still open.
Held == {c \in Conns : conn[c] = "open"}

\* C12 (as claimed): the Session instance of a key never holds more than one
\* accepted connection.
C12_AtMostOneConnection == Cardinality(Held) <= 1

\* C12 (amended): every upgrade request routed to the instance is accepted
\* with a WebSocketPair of its own, also while earlier connections are still
\* open; the instance holds as many connections as were accepted and have not
\* closed.
C12_EveryUpgradeAccepted ==
  (\E c \in Conns : conn[c] = "absent") => ENABLED (\E c \in Conns : Upgrade(c))

\* Two connections of the same instance open at once, each with a message
\* answered on it.
C12_Witness ==
  /\ Cardinality(Held) >= 2
  /\ \E r, q \in Units :
       /\ units[r].conn # units[q].conn
       /\ Writable(r) /\ Writable(q)
       /\ AllWrites(r) # {} /\ AllWrites(q) # {}

\* Unit r called a provider and was answered with an error frame.
ErrorAfterCall(r) ==
  units[r].calls = 1 /\ \E w \in AllWrites(r) : Role(FrameAt(w)) = Str("error")

\* C13: the content of the error frame for a backend failure is a generic
\* string that does not depend on the provider's reply: two failed requests
\* for the same agent, whatever status, body or exception failed them, carry
\* the same content, and it holds neither the status nor the body.
C13_GenericErrorContent ==
  /\ \A r, q \in Units :
       (units[r].raw.agent = units[q].raw.agent /\ ErrorAfterCall(r) /\ ErrorAfterCall(q))
       => \A w \in AllWrites(r), v \in AllWrites(q) :
            Content(FrameAt(w)) = Content(FrameAt(v))
  /\ \A r \in Units :
       (ErrorAfterCall(r) /\ NonSuccessStatus(units[r].raw, units[r].reply))
       => \A w \in AllWrites(r) :
            /\ ~Contains(Content(FrameAt(w)).val, ToString(units[r].reply.status))
            /\ ~Contains(Content(FrameAt(w)).val, units[r].reply.text)

\* Two openai requests, one whose fetch rejected and one answered with status
\* 500, both with the same error content.
C13_Witness ==
  \E r, q \in Units :
    /\ units[r].raw.agent = Str("openai") /\ units[q].raw.agent = Str("openai")
    /\ units[r].reply.kind = "reject" /\ units[q].reply.status = 500
    /\ ErrorAfterCall(r) /\ ErrorAfterCall(q)
    /\ \A w \in AllWrites(r), v \in AllWrites(q) :
         Content(FrameAt(w)) = Content(FrameAt(v))

\* Unit r called a remote provider, was answered with a non-success status,
\* and has run to its end.
EndedOnStatus(r) ==
  Finished(r) /\ units[r].calls = 1 /\ NonSuccessStatus(units[r].raw, units[r].reply)

\* C14 as stated: when a remote adapter gets a non-success status, the failure
\* its generate call ends with carries the status code and the raw body text.
C14_FailureCarriesStatusAndBody ==
  \A r \in Units :
    EndedOnStatus(r)
    => /\ ~units[r].outcome.ok
       /\ Contains(units[r].outcome.message, ToString(units[r].reply.status))
       /\ Contains(units[r].outcome.message, units[r].reply.text)

\* C14 amended: on a non-success status the generate call fails with the
\* adapter's generic failure, which carries neither the status code nor the
\* body text.  When the body can be read, the adapter raises inside its own
\* try block an Error carrying the status code and the raw body text, and its
\* catch block logs that Error; when reading the body fails, the failure of
\* the read is what is raised and logged, and the status code appears
\* nowhere.
C14_StatusAndBodyOnlyLogged ==
  \A r \in Units :
    EndedOnStatus(r)
    => /\ units[r].outcome = Throw(GenericText(units[r].raw.agent.val))
       /\ units[r].reply.read
          => /\ Contains(units[r].logged, ToString(units[r].reply.status))
             /\ Contains(units[r].logged, units[r].reply.text)
       /\ ~units[r].reply.read
          => /\ units[r].logged = "terminated"
             /\ ~Contains(units[r].logged, ToString(units[r].reply.status))

\* A gemini request answered with status 500 and a readable body, and one
\* answered with status 500 whose body could not be read, have both ended,
\* their error frames written.
C14_Witness ==
  \E r, q \in Units :
    /\ EndedOnStatus(r) /\ units[r].raw.agent = Str("gemini")
    /\ units[r].reply.status = 500 /\ units[r].reply.read
    /\ Contains(units[r].logged, "500") /\ OneFrame(r, "error")
    /\ EndedOnStatus(q) /\ ~units[q].reply.read /\ OneFrame(q, "error")

\* C16: generate called with a prompt string p resolves to 'You said: '
\* followed by p, for every p.
C16_GenerateEchoes ==
  \A i \in 1..Len(called) : called[i].result = EchoGenerate(called[i].arg)

\* C17: no response of role assistant is written with missing or empty
\* content: the content of every assistant frame is a non-empty string, and a
\* request whose provider reply lacks the expected text ends in an error frame.
C17_AssistantContentNonEmpty ==
  /\ \A c \in Conns : \A i \in 1..Len(sent[c]) :
       Role(sent[c][i].frame) = Str("assistant")
       => /\ Content(sent[c][i].frame).type = "string"
          /\ Content(sent[c][i].frame).val # ""
  /\ \A r \in Units :
       (Finished(r) /\ Writable(r) /\ units[r].calls = 1
          /\ ~BackendSucceeded(units[r].raw, units[r].reply))
       => OneFrame(r, "error")

\* C18: validation precedes routing and routing precedes any provider call.
\* A message lacking agent or prompt is answered with the validation error,
\* not the unsupported-agent error, also when its agent is unknown; and no
\* provider is called for a message that fails validation or names an
\* unsupported agent.
C18_ValidationThenRoutingThenCall ==
  \A r \in Units :
    /\ (MissingField(units[r].raw) /\ Writable(r))
       => /\ OneFrame(r, "error")
          /\ \A w \in AllWrites(r) : Content(FrameAt(w)) = Str(InvalidFormatText)
    /\ (MissingField(units[r].raw)
          \/ (WellFormed(units[r].raw) /\ ~Supported(units[r].raw)))
       => /\ units[r].calls = 0
          /\ units[r].reply = NoReply
          /\ Finished(r)

\* A message with an unknown agent and no prompt has been answered with the
\* validation error, and one with an unknown agent and a prompt with the
\* unsupported-agent error, neither having called a provider.
C18_Witness ==
  /\ \E r \in Units :
       /\ units[r].raw = Obj(Str("bogus"), Undef) /\ units[r].calls = 0
       /\ \E w \in AllWrites(r) : Content(FrameAt(w)) = Str(InvalidFormatText)
  /\ \E r \in Units :
       /\ units[r].raw = Obj(Str("bogus"), Str("hi")) /\ units[r].calls = 0
       /\ \E w \in AllWrites(r) :
            Content(FrameAt(w)) = Str(FailedText(UnsupportedText(Str("bogus"))))

\* C19: under fair scheduling every message accepted on an open connection
\* is eventually answered unless the connection stops being open: no request
\* stays in flight for ever.
C19_EventuallyAnswered ==
  \A r \in 1..MaxReqs :
    (r \in Units)
      ~> (r \in Units /\ (AllWrites(r) # {} \/ ~Writable(r)))

\* A request that had to wait for its provider has been answered on a
\* connection that is still open.
C19_Witness ==
  \E r \in Units :
    /\ units[r].calls = 1 /\ units[r].reply.kind = "value" /\ Finished(r)
    /\ Writable(r) /\ AllWrites(r) # {}

\* C20: with several connections accepted by one instance, every response is
\* written to the connection its request arrived on and to no other.
C20_AnsweredOnOwnConnection ==
  \A c \in Conns : \A i \in 1..Len(sent[c]) :
    /\ sent[c][i].req \in Units
    /\ units[sent[c][i].req].conn = c

\* Two connections are open, each has carried a request, the one on the
\* first connection having waited for its provider, and both were answered.
C20_Witness ==
  \E r, q \in Units :
    /\ units[r].conn = 1 /\ units[q].conn = 2
    /\ conn[1] = "open" /\ conn[2] = "open"
    /\ units[r].calls = 1 /\ r < q
    /\ AllWrites(r) # {} /\ AllWrites(q) # {}

====
